---- MODULE Spec2Model ----
(***************************************************************************)
(* Model of the heatmap server: the MarketAggregator (order book, trade    *)
(* buffer, bucket timer, snapshot generation), the ProjectXSocket upstream *)
(* connection, the stream registry and the HTTP handlers that start and    *)
(* stop streams.                                                           *)
(*                                                                         *)
(* Prices are integers in a price unit; a tick size is a positive number   *)
(* of units, so Math.round(price / tickSize) is computed exactly.          *)
(* Objects that nothing can reach any more (no timer, no open connection,  *)
(* no registry entry, no request holding them) are dropped, as the         *)
(* runtime's garbage collector does, and their slot is used again.         *)
(* Not modelled: wall-clock values (HeatmapColumn.t, TradeData.timestamp)  *)
(* and non-numeric (NaN / undefined) prices and volumes.                   *)
(***************************************************************************)
EXTENDS Integers, Sequences, FiniteSets, TLC

\* ------------------------------------------------------------------ bounds
\* Largest number of trades buffered between two emitted snapshots.
MaxTrades == 2
\* Largest number of price levels held in one book (both sides together).
MaxLevels == 2
\* Largest number of MarketAggregator / ProjectXSocket pairs alive at once.
MaxAggs == 2
\* Largest number of HTTP requests in flight at once.
MaxReqs == 2

\* ------------------------------------------------------------ input domains
Prices == {-1, 0, 1}
Volumes == {-1, 0, 1}
TickSizes == {1, 2}
WindowSizes == {2, 3}
DomTypes == {0, 1, 2, 3, 4, 5, 6, 7, 9, 10, 11}
TradeInputs == {<<0, 0>>, <<1, 1>>}
Sessions == {"s1"}
Contracts == {"c1"}
NoStream == 0
\* the window size of the server specification
WindowTicks == 2

VARIABLES
  windowSize,     \* CONFIG.PRICE_WINDOW_TICKS
  alloc,          \* the slots holding a live MarketAggregator / ProjectXSocket pair
  aggs,           \* the MarketAggregator instances, by slot
  sockets,        \* the ProjectXSocket instances; sockets[a] belongs to aggs[a]
  streams,        \* the stream registry: session id -> index of its ActiveStream
  sessionStore,   \* AuthService's session store: the session ids present
  reqs,           \* the HTTP requests in flight
  clients,        \* ClientManager.clients: session id -> its set of WebSockets
  wss,            \* the browser WebSockets of the WebSocketServer: readyState and
                  \* the session id their connection handler accepted
  refresh,        \* the token refresh loop: idle, or waiting in validateAndRefresh
  ev,             \* history: the operation that ran last and what it did
  replaced,       \* history: the streams a completed stream-start has replaced
  arrived,        \* history: by slot, the trade messages handled since the last
                  \* emitted snapshot
  stopped         \* history: the slots whose running timer a stop() has cleared

vars ==
  <<windowSize, alloc, aggs, sockets, streams, sessionStore, reqs, clients, wss,
    refresh, ev, replaced, arrived, stopped>>

\* ---------------------------------------------------------------- helpers
\* String(v) of a contract id.  A contract id that arrives as a JSON number n
\* is written "#n" here; String gives a number's decimal text and leaves a
\* string as it is.
String(v) ==
  CASE v = "#7" -> "7"
    [] v = "#8" -> "8"
    [] OTHER -> v

EmptyMap == [x \in {} |-> 0]

MapSet(m, k, v) == [x \in (DOMAIN m) \cup {k} |-> IF x = k THEN v ELSE m[x]]

MapDelete(m, k) == [x \in (DOMAIN m) \ {k} |-> m[x]]

\* `map.get(k) || 0`: an absent key (undefined) and a stored 0 both give 0.
MapGetOr0(m, k) == IF k \in DOMAIN m /\ m[k] # 0 THEN m[k] ELSE 0

\* Math.round(num / den) for den > 0: floor(num / den + 1/2), a half rounds up.
MathRound(num, den) == (2 * num + den) \div (2 * den)

MaxOf(S) == CHOOSE x \in S : \A y \in S : y <= x

MinOf(S) == CHOOSE x \in S : \A y \in S : x <= y

Zeros(n) == [k \in 1..n |-> 0]

\* arr[i] = v on a JS array (index from 0): writing at arr.length grows the array.
SetAt(arr, i, v) ==
  IF i + 1 <= Len(arr) THEN [arr EXCEPT ![i + 1] = v] ELSE Append(arr, v)

\* -------------------------------------------------------- MarketAggregator
\* new MarketAggregator(contractId, tickSize, onColumnGenerated); the callback
\* closes over the session id of the request that built it.  intervalId is
\* whether the field holds a timer, timers the number of intervals of this
\* aggregator that setInterval created and clearInterval has not cleared.
NewAggregator(contractId, tickSize, sessionId) ==
  [contractId |-> contractId, tickSize |-> tickSize, session |-> sessionId,
   bids |-> EmptyMap, asks |-> EmptyMap, currentBucketTrades |-> <<>>,
   intervalId |-> FALSE, timers |-> 0, lastMidTick |-> 0]

\* start() without the `if (this.intervalId) return`
start_noGuard(A) == [A EXCEPT !.intervalId = TRUE, !.timers = @ + 1]

start(A) ==
  IF A.intervalId THEN A ELSE [A EXCEPT !.intervalId = TRUE, !.timers = @ + 1]

\* stop() without the clearInterval
stop_noClear(A) == IF A.intervalId THEN [A EXCEPT !.intervalId = FALSE] ELSE A

stop(A) ==
  IF A.intervalId THEN [A EXCEPT !.intervalId = FALSE, !.timers = @ - 1] ELSE A

\* updateLevel that sets a level only where there is none
updateLevel_keepsFirst(m, tick, volume) ==
  IF volume = 0 THEN MapDelete(m, tick)
  ELSE IF tick \in DOMAIN m THEN m ELSE MapSet(m, tick, volume)

\* updateLevel that sets a level and never deletes one
updateLevel_noDelete(m, tick, volume) ==
  IF volume = 0 THEN m ELSE MapSet(m, tick, volume)

updateLevel(m, tick, volume) ==
  IF volume = 0 THEN MapDelete(m, tick) ELSE MapSet(m, tick, volume)

\* handleDepth whose reset clears the bids alone
handleDepth_resetBidsOnly(A, msg) ==
  LET tick == MathRound(msg.price, A.tickSize) IN
  CASE msg.domType = 6 -> [A EXCEPT !.bids = EmptyMap]
    [] msg.domType \in {1, 3, 10} ->
         [A EXCEPT !.asks = updateLevel(A.asks, tick, msg.volume)]
    [] msg.domType \in {2, 4, 9} ->
         [A EXCEPT !.bids = updateLevel(A.bids, tick, msg.volume)]
    [] OTHER -> A

\* handleDepth that takes code 7 for a bid code
handleDepth_sevenIsBid(A, msg) ==
  LET tick == MathRound(msg.price, A.tickSize) IN
  CASE msg.domType = 6 -> [A EXCEPT !.bids = EmptyMap, !.asks = EmptyMap]
    [] msg.domType \in {1, 3, 10} ->
         [A EXCEPT !.asks = updateLevel(A.asks, tick, msg.volume)]
    [] msg.domType \in {2, 4, 7, 9} ->
         [A EXCEPT !.bids = updateLevel(A.bids, tick, msg.volume)]
    [] OTHER -> A

handleDepth(A, msg) ==
  LET tick == MathRound(msg.price, A.tickSize) IN
  CASE msg.domType = 6 -> [A EXCEPT !.bids = EmptyMap, !.asks = EmptyMap]
    [] msg.domType \in {1, 3, 10} ->
         [A EXCEPT !.asks = updateLevel(A.asks, tick, msg.volume)]
    [] msg.domType \in {2, 4, 9} ->
         [A EXCEPT !.bids = updateLevel(A.bids, tick, msg.volume)]
    [] OTHER -> A

\* the side mapping with Sell for every value but 0
tradeSide_sellIsDefault(aggressorSide) == IF aggressorSide = 0 THEN "Buy" ELSE "Sell"

tradeSide(aggressorSide) ==
  IF aggressorSide = 0 THEN "Buy" ELSE IF aggressorSide = 1 THEN "Sell" ELSE "None"

handleTrade(A, msg) ==
  LET tick == MathRound(msg.price, A.tickSize) IN
  [A EXCEPT !.currentBucketTrades =
     Append(@, [priceTick |-> tick, price |-> msg.price, volume |-> msg.quantity,
                side |-> tradeSide(msg.aggressorSide)])]

hasBid(A) == DOMAIN A.bids # {}

hasAsk(A) == DOMAIN A.asks # {}

\* the loops of bucket(): the largest bid tick, the smallest ask tick
bestBid(A) == MaxOf(DOMAIN A.bids)

bestAsk(A) == MinOf(DOMAIN A.asks)

\* calcMid without the two branches that read a one-sided book
calcMid_noBookBranch(A) ==
  IF hasBid(A) /\ hasAsk(A) THEN MathRound(bestBid(A) + bestAsk(A), 2)
  ELSE IF Len(A.currentBucketTrades) > 0
    THEN A.currentBucketTrades[Len(A.currentBucketTrades)].priceTick
  ELSE A.lastMidTick

\* calcMid that starts from 0 and not from lastMidTick
calcMid_noCarry(A) ==
  IF hasBid(A) /\ hasAsk(A) THEN MathRound(bestBid(A) + bestAsk(A), 2)
  ELSE IF Len(A.currentBucketTrades) > 0
    THEN A.currentBucketTrades[Len(A.currentBucketTrades)].priceTick
  ELSE IF hasBid(A) THEN bestBid(A)
  ELSE IF hasAsk(A) THEN bestAsk(A)
  ELSE 0

\* "Calculate Mid": the if / else-if chain of bucket()
calcMid(A) ==
  IF hasBid(A) /\ hasAsk(A) THEN MathRound(bestBid(A) + bestAsk(A), 2)
  ELSE IF Len(A.currentBucketTrades) > 0
    THEN A.currentBucketTrades[Len(A.currentBucketTrades)].priceTick
  ELSE IF hasBid(A) THEN bestBid(A)
  ELSE IF hasAsk(A) THEN bestAsk(A)
  ELSE A.lastMidTick

\* the two "if (midTick === 0 && ...)" fallbacks, in the code's order
midFallback(A, m) ==
  LET m1 == IF m = 0 /\ hasBid(A) THEN bestBid(A) ELSE m
  IN IF m1 = 0 /\ hasAsk(A) THEN bestAsk(A) ELSE m1

\* the value of the local midTick when bucket() tests `midTick === 0`
resolveMidTick(A) == midFallback(A, calcMid(A))

RECURSIVE fillWindow(_, _, _, _, _)
fillWindow(arr, m, startTick, i, n) ==
  IF i < n
  THEN fillWindow(SetAt(arr, i, MapGetOr0(m, startTick + i)), m, startTick, i + 1, n)
  ELSE arr

\* buildWindow with a window of twice the half window
buildWindow_twiceHalf(m, midTick, W) ==
  LET halfWindow == W \div 2
      startTick == midTick - halfWindow
  IN fillWindow(Zeros(2 * halfWindow), m, startTick, 0, 2 * halfWindow)

\* buildWindow with a window that starts one tick late
buildWindow_startsLate(m, midTick, W) ==
  LET halfWindow == W \div 2
      startTick == midTick - halfWindow + 1
  IN fillWindow(Zeros(W), m, startTick, 0, W)

buildWindow(m, midTick, W) ==
  LET halfWindow == W \div 2
      startTick == midTick - halfWindow
  IN fillWindow(Zeros(W), m, startTick, 0, W)

\* bucket() without `this.currentBucketTrades = []`
bucket_keepsTrades(A, W) ==
  LET midTick == resolveMidTick(A) IN
  IF midTick = 0
  THEN [agg |-> A, mid |-> midTick, cols |-> <<>>]
  ELSE [agg |-> [A EXCEPT !.lastMidTick = midTick],
        mid |-> midTick,
        cols |-> <<[midTick |-> midTick,
                    bids |-> buildWindow(A.bids, midTick, W),
                    asks |-> buildWindow(A.asks, midTick, W),
                    trades |-> A.currentBucketTrades]>>]

\* bucket() without the `if (midTick === 0) return`
bucket_noReturn(A, W) ==
  LET midTick == resolveMidTick(A) IN
  [agg |-> [A EXCEPT !.lastMidTick = midTick, !.currentBucketTrades = <<>>],
   mid |-> midTick,
   cols |-> <<[midTick |-> midTick,
               bids |-> buildWindow(A.bids, midTick, W),
               asks |-> buildWindow(A.asks, midTick, W),
               trades |-> A.currentBucketTrades]>>]

\* bucket() without `this.lastMidTick = midTick`
bucket_forgetsMid(A, W) ==
  LET midTick == resolveMidTick(A) IN
  IF midTick = 0
  THEN [agg |-> A, mid |-> midTick, cols |-> <<>>]
  ELSE [agg |-> [A EXCEPT !.currentBucketTrades = <<>>],
        mid |-> midTick,
        cols |-> <<[midTick |-> midTick,
                    bids |-> buildWindow(A.bids, midTick, W),
                    asks |-> buildWindow(A.asks, midTick, W),
                    trades |-> A.currentBucketTrades]>>]

\* bucket(): the aggregator afterwards, the value midTick resolved to, and the
\* columns handed to onColumnGenerated (none or one).
bucket(A, W) ==
  LET midTick == resolveMidTick(A) IN
  IF midTick = 0
  THEN [agg |-> A, mid |-> midTick, cols |-> <<>>]
  ELSE [agg |-> [A EXCEPT !.lastMidTick = midTick, !.currentBucketTrades = <<>>],
        mid |-> midTick,
        cols |-> <<[midTick |-> midTick,
                    bids |-> buildWindow(A.bids, midTick, W),
                    asks |-> buildWindow(A.asks, midTick, W),
                    trades |-> A.currentBucketTrades]>>]

\* ---------------------------------------------------------- ProjectXSocket
\* new ProjectXSocket(token): the hub connection is built, not started.
\* url is the access_token the constructor writes into the hub URL.
NewSocket(token) ==
  [token |-> token, url |-> token, isConnected |-> FALSE, conn |-> "Disconnected",
   subDepth |-> FALSE, subTrades |-> FALSE]

\* socket.start() up to its await: connection.start() is under way.
socketStartCall(S) == IF S.isConnected THEN S ELSE [S EXCEPT !.conn = "Connecting"]

\* socket.start() after `await this.connection.start()` resolved
socketStartDone(S) == [S EXCEPT !.isConnected = TRUE, !.conn = "Connected"]

\* socket.stop() up to its await: returns at once when not connected
socketStopCall(S) == IF ~S.isConnected THEN S ELSE [S EXCEPT !.conn = "Disconnecting"]

\* socket.stop() after `await this.connection.stop()` resolved
socketStopDone(S) ==
  [S EXCEPT !.isConnected = FALSE, !.conn = "Disconnected",
            !.subDepth = FALSE, !.subTrades = FALSE]

\* updateToken that also rebuilds the connection with the new credential
updateToken_reconnects(S, newToken) ==
  [S EXCEPT !.token = newToken, !.url = newToken, !.conn = "Reconnecting"]

\* socket.updateToken(newToken)
updateToken(S, newToken) == [S EXCEPT !.token = newToken]

\* ------------------------------------------------------------ ClientManager
\* ClientManager.add(sessionId, ws)
add(cl, sessionId, ws) ==
  LET withEntry == IF sessionId \in DOMAIN cl
                   THEN cl
                   ELSE [x \in (DOMAIN cl) \cup {sessionId} |->
                           IF x = sessionId THEN {} ELSE cl[x]]
  IN [withEntry EXCEPT ![sessionId] = @ \cup {ws}]

\* ClientManager.remove without the delete of an emptied set
remove_keepsEmpty(cl, sessionId, ws) ==
  IF sessionId \in DOMAIN cl THEN [cl EXCEPT ![sessionId] = @ \ {ws}] ELSE cl

\* ClientManager.remove(sessionId, ws)
remove(cl, sessionId, ws) ==
  IF sessionId \in DOMAIN cl
  THEN LET set == cl[sessionId] \ {ws} IN
       IF set = {}
       THEN [x \in (DOMAIN cl) \ {sessionId} |-> cl[x]]
       ELSE [cl EXCEPT ![sessionId] = set]
  ELSE cl

\* ClientManager.getClients that answers with every registered listener
getClients_anySession(cl, sessionId) == UNION {cl[x] : x \in DOMAIN cl}

\* ClientManager.getClients(sessionId); no entry (undefined) reads as no listener
getClients(cl, sessionId) == IF sessionId \in DOMAIN cl THEN cl[sessionId] ELSE {}

\* ------------------------------------------------------------------ server
Slots == 1..MaxAggs

\* the requests in flight, in order of arrival
ReqIds == 1..Len(reqs)

NoDepth == [side |-> "none"]

\* new Map<string, Set<WebSocket>>()
NoClients == [s \in {} |-> {}]

\* the browser WebSockets a specification connects
ClientSessions == {"s1", "s2"}

WebSockets == {"ws1", "ws2", "ws3"}

\* no browser is connected
NoListeners == [ws \in WebSockets |-> [readyState |-> "CLOSED", sessionId |-> ""]]

\* the refresh loop between two cycles
Idle == [pc |-> "idle", pos |-> 0, session |-> "", stream |-> 0]

\* history value of a step that no property looks back at
Quiet == [op |-> "step"]

FreeAgg == NewAggregator("", 0, "")

FreeSocket == NewSocket(0)

\* the requests in flight once request r has answered
Answered(r) == SubSeq(reqs, 1, r - 1) \o SubSeq(reqs, r + 1, Len(reqs))

\* stream-start requests that have still to construct their aggregator
PendingStarts ==
  Cardinality({r \in ReqIds : reqs[r].kind = "start" /\ reqs[r].pc = "awaitStop"})

\* AuthService.getSession(sessionId) is defined
HasSession(s) == sessionStore[s].live

\* something still holds the pair in slot a: its timer, its hub connection, the
\* registry or a request
Live(a, ag, so, st, rq) ==
  \/ ag[a].timers > 0
  \/ so[a].conn # "Disconnected"
  \/ \E s \in DOMAIN st : st[s] = a
  \/ \E r \in 1..Len(rq) : rq[r].stream = a \/ rq[r].agg = a

\* history: the slots stopped so far, with those whose timer the step to the
\* aggregators ag clears
StoppedAfter(ag) == stopped \cup {a \in Slots : aggs[a].timers > 0 /\ ag[a].timers = 0}

\* the end of every step: the new values, less the pairs nothing holds any more
Commit(al, ag, so, st, rq, rp) ==
  LET keep == {a \in al : Live(a, ag, so, st, rq)} IN
  /\ alloc' = keep
  /\ aggs' = [a \in Slots |-> IF a \in keep THEN ag[a] ELSE FreeAgg]
  /\ sockets' = [a \in Slots |-> IF a \in keep THEN so[a] ELSE FreeSocket]
  /\ streams' = st
  /\ reqs' = rq
  /\ replaced' = rp \cap keep
  /\ arrived' = [a \in Slots |-> IF a \in keep THEN arrived[a] ELSE <<>>]
  /\ stopped' = StoppedAfter(ag) \cap keep

\* the server after start-up, with every session of Sessions logged in
Init ==
  /\ windowSize = WindowTicks
  /\ alloc = {}
  /\ aggs = [a \in Slots |-> FreeAgg]
  /\ sockets = [a \in Slots |-> FreeSocket]
  /\ streams = [s \in Sessions |-> NoStream]
  /\ sessionStore = [s \in Sessions |-> [live |-> TRUE, accessToken |-> 0]]
  /\ reqs = <<>>
  /\ clients = NoClients
  /\ wss = NoListeners
  /\ refresh = Idle
  /\ ev = [op |-> "init"]
  /\ replaced = {}
  /\ arrived = [a \in Slots |-> <<>>]
  /\ stopped = {}

\* the sockets once a handler has called `stream.socket.stop()` on the
\* session's stream
socketsStopCalled(s) == [sockets EXCEPT ![streams[s]] = socketStopCall(@)]

\* the request that waits at `await stream.socket.stop()`
awaitingStop(kind, s, contractId, tickSize) ==
  [kind |-> kind, session |-> s, pc |-> "awaitStop", stream |-> streams[s],
   waited |-> sockets[streams[s]].isConnected, agg |-> 0,
   contractId |-> contractId, tickSize |-> tickSize]

\* the sockets once `await stream.socket.stop()` of request r has resumed
afterSocketStop(r) ==
  IF reqs[r].waited
  THEN [sockets EXCEPT ![reqs[r].stream] = socketStopDone(@)]
  ELSE sockets

\* a teardown that leaves out `stream.aggregator.stop()`
afterAggregatorStop_leftOut(r) == aggs

\* the aggregators once request r has run `stream.aggregator.stop()`
afterAggregatorStop(r) == [aggs EXCEPT ![reqs[r].stream] = stop(@)]

\* a handler that empties the registry
streamsDelete_clearsAll(s) == [x \in DOMAIN streams |-> NoStream]

\* the registry once a handler has run `streams.delete(sessionId)`
streamsDelete(s) == [streams EXCEPT ![s] = NoStream]

NewId == MinOf(Slots \ alloc)

\* /stream/start from "Create new components" to `await socket.start()`:
\* the aggregators, the sockets and the request afterwards
withNewAggregator(ag, s, contractId, tickSize) ==
  [ag EXCEPT ![NewId] = NewAggregator(String(contractId), tickSize, s)]

withNewSocket(so, s) ==
  [so EXCEPT ![NewId] = socketStartCall(NewSocket(sessionStore[s].accessToken))]

awaitingStart(s, old) ==
  [kind |-> "start", session |-> s, pc |-> "awaitStart", stream |-> old,
   agg |-> NewId]

\* the early returns of POST /stream/start without the test of the request body
rejected_sessionOnly(cookie, contractId, tickSize) ==
  cookie = "none" \/ ~HasSession(cookie)

\* the early returns of POST /stream/start: no session cookie, no such session,
\* contractId or tickSize missing
rejected(cookie, contractId, tickSize) ==
  cookie = "none" \/ ~HasSession(cookie) \/ contractId = "" \/ tickSize = 0

\* the history value of a step of POST /stream/start
startNote(cookie, contractId, tickSize, noted) ==
  IF noted
  THEN [op |-> "startRequest", cookie |-> cookie, contractId |-> contractId,
        tickSize |-> tickSize]
  ELSE Quiet

\* POST /stream/start up to its first await; the step is written to the history
\* variable when noted
StartRequestNoted(cookie, contractId, tickSize, noted) ==
  /\ Len(reqs) < MaxReqs
  /\ Cardinality(alloc) + PendingStarts < MaxAggs
  /\ UNCHANGED <<windowSize, sessionStore, clients, wss, refresh>>
  /\ IF rejected(cookie, contractId, tickSize)
     THEN /\ ev' = startNote(cookie, contractId, tickSize, noted)
          /\ UNCHANGED <<alloc, aggs, sockets, streams, reqs, replaced, arrived, stopped>>
     ELSE IF streams[cookie] # NoStream
     THEN /\ ev' = startNote(cookie, contractId, tickSize, noted)
          /\ Commit(alloc, aggs, socketsStopCalled(cookie), streams,
                    Append(reqs, awaitingStop("start", cookie, contractId, tickSize)),
                    replaced)
     ELSE /\ ev' = startNote(cookie, contractId, tickSize, noted)
          /\ Commit(alloc \cup {NewId},
                    withNewAggregator(aggs, cookie, contractId, tickSize),
                    withNewSocket(sockets, cookie), streams,
                    Append(reqs, awaitingStart(cookie, NoStream)), replaced)

StartRequest(cookie, contractId, tickSize) ==
  StartRequestNoted(cookie, contractId, tickSize, FALSE)

\* POST /stream/start resumed after `await stream.socket.stop()`
StartAfterStop(r) ==
  LET s == reqs[r].session IN
  /\ reqs[r].kind = "start" /\ reqs[r].pc = "awaitStop"
  /\ ev' = Quiet
  /\ Commit(alloc \cup {NewId},
            withNewAggregator(afterAggregatorStop(r), s, reqs[r].contractId,
                              reqs[r].tickSize),
            withNewSocket(afterSocketStop(r), s), streamsDelete(s),
            [reqs EXCEPT ![r] = awaitingStart(s, reqs[r].stream)], replaced)
  /\ UNCHANGED <<windowSize, sessionStore, clients, wss, refresh>>

\* connection.start() resolved: socket.start() returns, socket.subscribe() invokes
\* SubscribeContractMarketDepth
ConnectOk(r) ==
  /\ reqs[r].kind = "start" /\ reqs[r].pc = "awaitStart"
  /\ ev' = Quiet
  /\ Commit(alloc, aggs, [sockets EXCEPT ![reqs[r].agg] = socketStartDone(@)], streams,
            [reqs EXCEPT ![r].pc = "awaitSubDepth"], replaced)
  /\ UNCHANGED <<windowSize, sessionStore, clients, wss, refresh>>

\* connection.start() rejected: socket.start() rethrows, the handler answers 500
ConnectFail(r) ==
  /\ reqs[r].kind = "start" /\ reqs[r].pc = "awaitStart"
  /\ ev' = [op |-> "startFailed", session |-> reqs[r].session, new |-> reqs[r].agg]
  /\ Commit(alloc, aggs, [sockets EXCEPT ![reqs[r].agg].conn = "Disconnected"], streams,
            Answered(r), replaced)
  /\ UNCHANGED <<windowSize, sessionStore, clients, wss, refresh>>

\* invoke('SubscribeContractMarketDepth') resolved: SubscribeContractTrades is invoked
SubscribeDepthOk(r) ==
  /\ reqs[r].kind = "start" /\ reqs[r].pc = "awaitSubDepth"
  /\ ev' = Quiet
  /\ Commit(alloc, aggs, [sockets EXCEPT ![reqs[r].agg].subDepth = TRUE], streams,
            [reqs EXCEPT ![r].pc = "awaitSubTrades"], replaced)
  /\ UNCHANGED <<windowSize, sessionStore, clients, wss, refresh>>

\* a handler that has started the aggregator before socket.subscribe() rejects
SubscribeFail_afterStart(r) ==
  /\ reqs[r].kind = "start" /\ reqs[r].pc \in {"awaitSubDepth", "awaitSubTrades"}
  /\ ev' = [op |-> "startFailed", session |-> reqs[r].session, new |-> reqs[r].agg]
  /\ Commit(alloc, [aggs EXCEPT ![reqs[r].agg] = start(@)], sockets, streams,
            Answered(r), replaced)
  /\ UNCHANGED <<windowSize, sessionStore, clients, wss, refresh>>

\* an invoke of socket.subscribe() rejected: the handler answers 500
SubscribeFail(r) ==
  /\ reqs[r].kind = "start" /\ reqs[r].pc \in {"awaitSubDepth", "awaitSubTrades"}
  /\ ev' = [op |-> "startFailed", session |-> reqs[r].session, new |-> reqs[r].agg]
  /\ Commit(alloc, aggs, sockets, streams, Answered(r), replaced)
  /\ UNCHANGED <<windowSize, sessionStore, clients, wss, refresh>>

\* invoke('SubscribeContractTrades') resolved: aggregator.start(), streams.set(),
\* res.json({ success: true })
SubscribeTradesOk(r) ==
  LET new == reqs[r].agg
      old == reqs[r].stream
      s == reqs[r].session
  IN
  /\ reqs[r].kind = "start" /\ reqs[r].pc = "awaitSubTrades"
  /\ ev' = [op |-> "startOk", session |-> s, old |-> old, new |-> new]
  /\ Commit(alloc, [aggs EXCEPT ![new] = start(@)],
            [sockets EXCEPT ![new].subTrades = TRUE], [streams EXCEPT ![s] = new],
            Answered(r),
            IF old = NoStream THEN replaced ELSE replaced \cup {old})
  /\ UNCHANGED <<windowSize, sessionStore, clients, wss, refresh>>

\* POST /stream/stop (kind "stop") and POST /auth/logout (kind "logout") up to
\* their await
StopRequest(kind, cookie) ==
  /\ Len(reqs) < MaxReqs
  /\ UNCHANGED <<windowSize, clients, wss, refresh>>
  /\ IF cookie = "none"
     THEN /\ ev' = Quiet
          /\ UNCHANGED <<alloc, aggs, sockets, streams, reqs, replaced, arrived, stopped,
                       sessionStore>>
     ELSE IF streams[cookie] # NoStream
     THEN /\ ev' = Quiet
          /\ Commit(alloc, aggs, socketsStopCalled(cookie), streams,
                    Append(reqs, awaitingStop(kind, cookie, "", 0)), replaced)
          /\ UNCHANGED sessionStore
     ELSE /\ ev' = [op |-> kind \o "Done", session |-> cookie]
          /\ sessionStore' = IF kind = "logout"
                             THEN [sessionStore EXCEPT ![cookie].live = FALSE]
                             ELSE sessionStore
          /\ UNCHANGED <<alloc, aggs, sockets, streams, reqs, replaced, arrived, stopped>>

\* /stream/stop and /auth/logout resumed after `await stream.socket.stop()`
StopAfterStop(r) ==
  LET s == reqs[r].session IN
  /\ reqs[r].kind \in {"stop", "logout"} /\ reqs[r].pc = "awaitStop"
  /\ ev' = [op |-> reqs[r].kind \o "Done", session |-> s]
  /\ Commit(alloc, afterAggregatorStop(r), afterSocketStop(r), streamsDelete(s),
            Answered(r), replaced)
  /\ sessionStore' = IF reqs[r].kind = "logout"
                     THEN [sessionStore EXCEPT ![s].live = FALSE]
                     ELSE sessionStore
  /\ UNCHANGED <<windowSize, clients, wss, refresh>>

\* no client.send call
NoSends == [ws \in WebSockets |-> 0]

\* the callback without its readyState test
onColumnGenerated_ignoresReadyState(cl, conns, sessionId, cols) ==
  [ws \in WebSockets |->
     IF ws \in getClients(cl, sessionId) THEN Len(cols) ELSE 0]

\* the callback that turns to every listener when the session has none
onColumnGenerated_fallsBackToAll(cl, conns, sessionId, cols) ==
  LET set == IF getClients(cl, sessionId) = {}
             THEN UNION {cl[x] : x \in DOMAIN cl}
             ELSE getClients(cl, sessionId)
  IN [ws \in WebSockets |->
        IF ws \in set /\ conns[ws].readyState = "OPEN" THEN Len(cols) ELSE 0]

\* the onColumnGenerated callback that /stream/start gives the aggregator of
\* sessionId, run on the columns of one bucket(): the number of client.send
\* calls made on each WebSocket
onColumnGenerated(cl, conns, sessionId, cols) ==
  [ws \in WebSockets |->
     IF ws \in getClients(cl, sessionId) /\ conns[ws].readyState = "OPEN"
     THEN Len(cols) ELSE 0]

\* the setInterval callback of a started aggregator: bucket(), whose columns go
\* to onColumnGenerated
TimerFires(a) ==
  LET b == bucket(aggs[a], windowSize) IN
  /\ aggs[a].timers > 0
  /\ aggs' = [aggs EXCEPT ![a] = b.agg]
  /\ arrived' = IF b.cols = <<>> THEN arrived ELSE [arrived EXCEPT ![a] = <<>>]
  /\ ev' = [op |-> "bucket", agg |-> a, pre |-> aggs[a], mid |-> b.mid, cols |-> b.cols,
            sends |-> onColumnGenerated(clients, wss, aggs[a].session, b.cols),
            since |-> arrived[a],
            prev |-> IF ev.op = "depth" /\ ev.note.side # "none" /\ ev.note.agg = a
                     THEN ev.note ELSE NoDepth]
  /\ UNCHANGED <<windowSize, alloc, sockets, streams, sessionStore, reqs, clients, wss, refresh,
               replaced, stopped>>

LevelCount(A) == Cardinality(DOMAIN A.bids) + Cardinality(DOMAIN A.asks)

\* history: the book update a depth message makes on aggregator a
depthNote(a, A, msg, prev) ==
  LET tick == MathRound(msg.price, A.tickSize) IN
  CASE msg.domType = 6 -> NoDepth
    [] msg.domType \in {1, 3, 10} ->
         [side |-> "ask", agg |-> a, tick |-> tick, volume |-> msg.volume]
    [] msg.domType \in {2, 4, 9} ->
         [side |-> "bid", agg |-> a, tick |-> tick, volume |-> msg.volume]
    [] OTHER -> prev

\* socket.onDepth that compares the contract ids without String()
onDepth_strict(A, msg) == IF msg.contractId = A.contractId THEN handleDepth(A, msg) ELSE A

\* socket.onDepth / socket.onTrade as wired by /stream/start: the contract filter
onDepth(A, msg) ==
  IF String(msg.contractId) = String(A.contractId) THEN handleDepth(A, msg) ELSE A

onTrade(A, msg) ==
  IF String(msg.contractId) = String(A.contractId) THEN handleTrade(A, msg) ELSE A

\* a GatewayDepth listener that hands over after the first item of a batch
forEachDepth_firstOnly(A, items) ==
  IF items = <<>> THEN A ELSE onDepth(A, Head(items))

\* items.forEach(...) of the GatewayDepth / GatewayTrade listeners
RECURSIVE forEachDepth(_, _)
forEachDepth(A, items) ==
  IF items = <<>> THEN A ELSE forEachDepth(onDepth(A, Head(items)), Tail(items))

RECURSIVE forEachTrade(_, _)
forEachTrade(A, items) ==
  IF items = <<>> THEN A ELSE forEachTrade(onTrade(A, Head(items)), Tail(items))

\* history: the trade messages of a batch that pass the contract filter of A
Accepted(A, items) ==
  SelectSeq(items, LAMBDA m : String(m.contractId) = String(A.contractId))

\* the history value of a step of the hub
hubNote(op, a, items, noted) ==
  IF noted THEN [op |-> op, agg |-> a, items |-> items] ELSE Quiet

\* the hub delivers a GatewayDepth message to socket a; the step is written to
\* the history variable when noted
DepthDelivered(a, items, noted) ==
  /\ sockets[a].conn = "Connected" /\ sockets[a].subDepth
  /\ LevelCount(forEachDepth(aggs[a], items)) <= MaxLevels
  /\ aggs' = [aggs EXCEPT ![a] = forEachDepth(@, items)]
  /\ ev' = hubNote("hubDepth", a, items, noted)
  /\ UNCHANGED <<windowSize, alloc, sockets, streams, sessionStore, reqs, clients, wss, refresh,
               replaced, arrived, stopped>>

GatewayDepth(a, items) == DepthDelivered(a, items, FALSE)

\* the hub delivers a GatewayTrade message to socket a; the step is written to
\* the history variable when noted
TradeDelivered(a, items, noted) ==
  /\ sockets[a].conn = "Connected" /\ sockets[a].subTrades
  /\ Len(forEachTrade(aggs[a], items).currentBucketTrades) <= MaxTrades
  /\ aggs' = [aggs EXCEPT ![a] = forEachTrade(@, items)]
  /\ ev' = hubNote("hubTrade", a, items, noted)
  /\ arrived' = [arrived EXCEPT ![a] = @ \o Accepted(aggs[a], items)]
  /\ UNCHANGED <<windowSize, alloc, sockets, streams, sessionStore, reqs, clients, wss, refresh,
               replaced, stopped>>

\* The server specification leaves trade delivery to AggSpec, where every trade
\* input is explored: a trade changes no socket, registry or request.
GatewayTrade(a, items) == TradeDelivered(a, items, FALSE)

\* what the clients and the hub send in the server specification
Cookies == Sessions \cup {"none"}

BodyContracts == Contracts \cup {""}

BodyTickSizes == {0, 1}

HubDepthBatches ==
  {<<[contractId |-> c, domType |-> 2, price |-> 1, volume |-> 1]>> :
     c \in Contracts \cup {"other"}}

HubTradeBatches ==
  {<<[contractId |-> c, price |-> 1, quantity |-> 1, aggressorSide |-> 0]>> :
     c \in Contracts}

Next ==
  \/ \E cookie \in Cookies, c \in BodyContracts, ts \in BodyTickSizes :
       StartRequest(cookie, c, ts)
  \/ \E r \in ReqIds : StartAfterStop(r)
  \/ \E r \in ReqIds : ConnectOk(r)
  \/ \E r \in ReqIds : ConnectFail(r)
  \/ \E r \in ReqIds : SubscribeDepthOk(r)
  \/ \E r \in ReqIds : SubscribeFail(r)
  \/ \E r \in ReqIds : SubscribeTradesOk(r)
  \/ \E kind \in {"stop", "logout"}, cookie \in Cookies : StopRequest(kind, cookie)
  \/ \E r \in ReqIds : StopAfterStop(r)
  \/ \E a \in alloc : TimerFires(a)
  \/ \E a \in alloc, items \in HubDepthBatches : GatewayDepth(a, items)

Spec == Init /\ [][Next]_vars

\* ------------------------------------------- one MarketAggregator on its own
\* An aggregator that was constructed and started, driven by its timer and by
\* the full range of depth and trade messages.
AggInit ==
  /\ windowSize \in WindowSizes
  /\ alloc = {1}
  /\ \E ts \in TickSizes :
       aggs = [a \in Slots |-> IF a = 1 THEN start(NewAggregator("c1", ts, "s1"))
                                ELSE FreeAgg]
  /\ sockets = [a \in Slots |-> FreeSocket]
  /\ streams = [s \in Sessions |-> NoStream]
  /\ sessionStore = [s \in Sessions |-> [live |-> TRUE, accessToken |-> 0]]
  /\ reqs = <<>>
  /\ clients = NoClients
  /\ wss = NoListeners
  /\ refresh = Idle
  /\ ev = [op |-> "init"]
  /\ replaced = {}
  /\ arrived = [a \in Slots |-> <<>>]
  /\ stopped = {}

\* every price with the volumes 0 and 1, and one price with a negative volume,
\* for the plain ask (1) and bid (2) codes; one price and the volumes 0 and 1
\* for the other ask and bid codes; three prices and volumes
\* for the reset code; one message for each code that handleDepth ignores
DepthMessages ==
  {m \in [contractId : {"c1"}, domType : DomTypes, price : Prices, volume : Volumes] :
     \/ m.domType \in {1, 2} /\ (m.volume >= 0 \/ m.price = 1)
     \/ m.domType \in {3, 4, 9, 10} /\ m.price = 1 /\ m.volume >= 0
     \/ m.domType = 6 /\ m.price = m.volume
     \/ m.domType \in {0, 5, 7, 11} /\ m.price = 1 /\ m.volume = 1}

TradeMessages ==
  {[contractId |-> "c1", price |-> t[1], quantity |-> 1, aggressorSide |-> t[2]] :
     t \in TradeInputs}

AggHandleDepth(msg) ==
  /\ LevelCount(handleDepth(aggs[1], msg)) <= MaxLevels
  /\ aggs' = [aggs EXCEPT ![1] = handleDepth(@, msg)]
  /\ ev' = [op |-> "depth", domType |-> msg.domType,
            note |-> depthNote(1, aggs[1], msg, NoDepth)]
  /\ UNCHANGED <<windowSize, alloc, sockets, streams, sessionStore, reqs, clients, wss, refresh,
               replaced, arrived, stopped>>

AggHandleTrade(msg) ==
  /\ Len(aggs[1].currentBucketTrades) < MaxTrades
  /\ aggs' = [aggs EXCEPT ![1] = handleTrade(@, msg)]
  /\ ev' = [op |-> "trade", msg |-> msg]
  /\ arrived' = [arrived EXCEPT ![1] = Append(@, msg)]
  /\ UNCHANGED <<windowSize, alloc, sockets, streams, sessionStore, reqs, clients, wss, refresh,
               replaced, stopped>>

AggNext ==
  \/ \E msg \in DepthMessages : AggHandleDepth(msg)
  \/ \E msg \in TradeMessages : AggHandleTrade(msg)
  \/ TimerFires(1)

AggSpec == AggInit /\ [][AggNext]_vars

\* ------------------------------------ one MarketAggregator, started and stopped
\* An aggregator that was constructed and not started yet; start() and stop() are
\* called in any order between a few depth and trade messages and timer ticks.
LifeInit ==
  /\ windowSize = WindowTicks
  /\ alloc = {1}
  /\ aggs = [a \in Slots |-> IF a = 1 THEN NewAggregator("c1", 1, "s1") ELSE FreeAgg]
  /\ sockets = [a \in Slots |-> FreeSocket]
  /\ streams = [s \in Sessions |-> NoStream]
  /\ sessionStore = [s \in Sessions |-> [live |-> TRUE, accessToken |-> 0]]
  /\ reqs = <<>>
  /\ clients = NoClients
  /\ wss = NoListeners
  /\ refresh = Idle
  /\ ev = [op |-> "init"]
  /\ replaced = {}
  /\ arrived = [a \in Slots |-> <<>>]
  /\ stopped = {}

LifeDepthMessages ==
  {[contractId |-> "c1", domType |-> 2, price |-> 1, volume |-> v] : v \in {0, 1}}
    \cup {[contractId |-> "c1", domType |-> 1, price |-> 1, volume |-> 1]}

\* trades with the aggressor sides 0 (Buy), 1 (Sell) and 2 (neither)
LifeTradeMessages ==
  {[contractId |-> "c1", price |-> 1, quantity |-> 1, aggressorSide |-> x] :
     x \in {0, 1, 2}}

\* aggregator.start()
LifeStart ==
  /\ aggs' = [aggs EXCEPT ![1] = start(@)]
  /\ ev' = [op |-> "start", pre |-> aggs[1]]
  /\ UNCHANGED <<windowSize, alloc, sockets, streams, sessionStore, reqs, clients, wss, refresh,
               replaced, arrived, stopped>>

\* aggregator.stop()
LifeStop ==
  /\ aggs' = [aggs EXCEPT ![1] = stop(@)]
  /\ ev' = [op |-> "stop", pre |-> aggs[1]]
  /\ stopped' = StoppedAfter(aggs')
  /\ UNCHANGED <<windowSize, alloc, sockets, streams, sessionStore, reqs, clients, wss, refresh,
               replaced, arrived>>

LifeNext ==
  \/ LifeStart
  \/ LifeStop
  \/ TimerFires(1)
  \/ \E msg \in LifeDepthMessages : AggHandleDepth(msg)
  \/ \E msg \in LifeTradeMessages : AggHandleTrade(msg)

LifeSpec == LifeInit /\ [][LifeNext]_vars

\* --------------------------------------------------- the ClientManager on its own
\* The listener registry under every order of add and remove calls.
ClientAdd(sessionId, ws) ==
  /\ clients' = add(clients, sessionId, ws)
  /\ ev' = [op |-> "add", session |-> sessionId, ws |-> ws, pre |-> clients]
  /\ UNCHANGED <<windowSize, alloc, aggs, sockets, streams, sessionStore, reqs, wss,
               refresh, replaced, arrived, stopped>>

ClientRemove(sessionId, ws) ==
  /\ clients' = remove(clients, sessionId, ws)
  /\ ev' = [op |-> "remove", session |-> sessionId, ws |-> ws, pre |-> clients]
  /\ UNCHANGED <<windowSize, alloc, aggs, sockets, streams, sessionStore, reqs, wss,
               refresh, replaced, arrived, stopped>>

ClientNext ==
  \/ \E s \in ClientSessions, ws \in WebSockets : ClientAdd(s, ws)
  \/ \E s \in ClientSessions, ws \in WebSockets : ClientRemove(s, ws)

ClientSpec == Init /\ [][ClientNext]_vars

\* ------------------------------------- two sessions streaming, with listeners
\* The server once two sessions have logged in and each has started a stream:
\* the hub sends depth and trade batches, the timers fire, browsers connect and
\* go away, and the sessions stop their streams or log out.
StartedSocket ==
  [NewSocket(0) EXCEPT !.isConnected = TRUE, !.conn = "Connected",
                       !.subDepth = TRUE, !.subTrades = TRUE]

StreamingInit ==
  /\ windowSize = WindowTicks
  /\ alloc = {1, 2}
  /\ aggs = [a \in Slots |->
               CASE a = 1 -> start(NewAggregator("c1", 1, "s1"))
                 [] a = 2 -> start(NewAggregator("c1", 1, "s2"))
                 [] OTHER -> FreeAgg]
  /\ sockets = [a \in Slots |-> IF a \in {1, 2} THEN StartedSocket ELSE FreeSocket]
  /\ streams = [s \in ClientSessions |-> IF s = "s1" THEN 1 ELSE 2]
  /\ sessionStore = [s \in ClientSessions |-> [live |-> TRUE, accessToken |-> 0]]
  /\ reqs = <<>>
  /\ clients = NoClients
  /\ wss = NoListeners
  /\ refresh = Idle
  /\ ev = [op |-> "init"]
  /\ replaced = {}
  /\ arrived = [a \in Slots |-> <<>>]
  /\ stopped = {}

\* the browsers of this specification
CastSockets == {"ws1", "ws2"}

\* the session that stops its stream or logs out while the other one streams on
CastLeavers == {"s2"}

\* a connection handler that does not look the session up
WsConnection_noCheck(sessionId, ws) ==
  /\ wss[ws].readyState = "CLOSED"
  /\ clients' = add(clients, sessionId, ws)
  /\ wss' = [wss EXCEPT ![ws] = [readyState |-> "OPEN", sessionId |-> sessionId]]
  /\ ev' = [op |-> "wsOpen", session |-> sessionId, ws |-> ws, sends |-> NoSends]
  /\ UNCHANGED <<windowSize, alloc, aggs, sockets, streams, sessionStore, reqs,
               refresh, replaced, arrived, stopped>>

\* wss.on('connection'): the handler of a new browser WebSocket that names
\* sessionId in its URL ("none": no sessionId parameter)
WsConnection(sessionId, ws) ==
  /\ wss[ws].readyState = "CLOSED"
  /\ IF sessionId = "none" \/ ~HasSession(sessionId)
     THEN /\ ev' = [op |-> "wsRejected", session |-> sessionId, ws |-> ws]
          /\ UNCHANGED <<clients, wss>>
     ELSE /\ clients' = add(clients, sessionId, ws)
          /\ wss' = [wss EXCEPT ![ws] = [readyState |-> "OPEN", sessionId |-> sessionId]]
          /\ ev' = [op |-> "wsOpen", session |-> sessionId, ws |-> ws,
                    sends |-> NoSends]
  /\ UNCHANGED <<windowSize, alloc, aggs, sockets, streams, sessionStore, reqs,
               refresh, replaced, arrived, stopped>>

\* the closing handshake of a browser WebSocket begins: readyState leaves OPEN
\* before the 'close' event is emitted
WsClosing(ws) ==
  /\ wss[ws].readyState = "OPEN"
  /\ wss' = [wss EXCEPT ![ws].readyState = "CLOSING"]
  /\ ev' = Quiet
  /\ UNCHANGED <<windowSize, alloc, aggs, sockets, streams, sessionStore, reqs,
               clients, refresh, replaced, arrived, stopped>>

\* ws.on('close') of an accepted browser WebSocket
WsClose(ws) ==
  /\ wss[ws].readyState \in {"OPEN", "CLOSING"}
  /\ clients' = remove(clients, wss[ws].sessionId, ws)
  /\ wss' = [wss EXCEPT ![ws] = [readyState |-> "CLOSED", sessionId |-> ""]]
  /\ ev' = [op |-> "wsClosed", session |-> wss[ws].sessionId, ws |-> ws]
  /\ UNCHANGED <<windowSize, alloc, aggs, sockets, streams, sessionStore, reqs,
               refresh, replaced, arrived, stopped>>

\* the hub's batches here: a bid and an ask, or two trades, in one message
CastDepthBatches ==
  {<<[contractId |-> "c1", domType |-> 2, price |-> 0, volume |-> 1],
     [contractId |-> "c1", domType |-> 1, price |-> 2, volume |-> 1]>>}

CastTradeBatches ==
  {<<[contractId |-> "c1", price |-> 1, quantity |-> 1, aggressorSide |-> 0],
     [contractId |-> "c1", price |-> 1, quantity |-> 1, aggressorSide |-> 1]>>}

CastNext ==
  \/ \E sessionId \in ClientSessions \cup {"none"}, ws \in CastSockets :
       WsConnection(sessionId, ws)
  \/ \E ws \in CastSockets : WsClosing(ws)
  \/ \E ws \in CastSockets : WsClose(ws)
  \/ \E a \in alloc : TimerFires(a)
  \/ \E a \in alloc, items \in CastDepthBatches : GatewayDepth(a, items)
  \/ \E a \in alloc, items \in CastTradeBatches : GatewayTrade(a, items)
  \/ \E kind \in {"stop", "logout"}, cookie \in CastLeavers : StopRequest(kind, cookie)
  \/ \E r \in ReqIds : StopAfterStop(r)

CastSpec == StreamingInit /\ [][CastNext]_vars

\* ------------------------------------------- two sessions, streams side by side
\* The same two streams without listeners: the hub and the timers drive both,
\* while the second session stops, logs out and starts its stream again (one
\* request after the other); stream-start requests that the handler turns
\* down come from both sessions and from clients without a cookie.
PairNext ==
  \/ \E a \in alloc : TimerFires(a)
  \/ \E a \in alloc, items \in CastDepthBatches : GatewayDepth(a, items)
  \/ \E a \in alloc, items \in CastTradeBatches : GatewayTrade(a, items)
  \/ \E kind \in {"stop", "logout"}, cookie \in CastLeavers : StopRequest(kind, cookie)
  \/ \E r \in ReqIds : StopAfterStop(r)
  \/ \E cookie \in ClientSessions \cup {"none"}, c \in BodyContracts,
        ts \in BodyTickSizes :
       /\ IF cookie = "none" \/ c = "" \/ ts = 0
          THEN TRUE
          ELSE IF ~HasSession(cookie)
          THEN TRUE
          ELSE cookie \in CastLeavers /\ reqs = <<>> /\ streams[cookie] = NoStream
       /\ StartRequestNoted(cookie, c, ts, TRUE)
  \/ \E r \in ReqIds : ConnectOk(r)
  \/ \E r \in ReqIds : ConnectFail(r)
  \/ \E r \in ReqIds : SubscribeDepthOk(r)
  \/ \E r \in ReqIds : SubscribeFail(r)
  \/ \E r \in ReqIds : SubscribeTradesOk(r)

PairSpec == StreamingInit /\ [][PairNext]_vars

\* --------------------------------------------- one stream, the contract filter
\* One session streams contract 7, started with the id as a string or as a
\* number; the hub sends depth and trade batches whose items name contract 7
\* or 8, each as a string or as a number.
HubContractIds == {"7", "#7", "8", "#8"}

FilterInit ==
  /\ windowSize = WindowTicks
  /\ alloc = {1}
  /\ \E contractId \in {"7", "#7"} :
       aggs = [a \in Slots |->
                 IF a = 1 THEN start(NewAggregator(String(contractId), 1, "s1"))
                 ELSE FreeAgg]
  /\ sockets = [a \in Slots |-> IF a = 1 THEN StartedSocket ELSE FreeSocket]
  /\ streams = [s \in Sessions |-> 1]
  /\ sessionStore = [s \in Sessions |-> [live |-> TRUE, accessToken |-> 0]]
  /\ reqs = <<>>
  /\ clients = NoClients
  /\ wss = NoListeners
  /\ refresh = Idle
  /\ ev = [op |-> "init"]
  /\ replaced = {}
  /\ arrived = [a \in Slots |-> <<>>]
  /\ stopped = {}

FilterDepthItems ==
  [contractId : HubContractIds, domType : {1, 2}, price : {1}, volume : {0, 1}]

FilterTradeItems ==
  [contractId : HubContractIds, price : {1}, quantity : {1}, aggressorSide : {0}]

\* the batches of one item, and those of two items whose second one adds volume
FilterDepthBatches ==
  {<<x>> : x \in FilterDepthItems}
    \cup {<<x, y>> : x \in FilterDepthItems, y \in {m \in FilterDepthItems : m.volume = 1}}

FilterTradeBatches ==
  {<<x>> : x \in FilterTradeItems} \cup {<<x, y>> : x \in FilterTradeItems, y \in FilterTradeItems}

FilterNext ==
  \/ \E items \in FilterDepthBatches :
       DepthDelivered(1, items, TRUE)
  \/ \E items \in FilterTradeBatches :
       TradeDelivered(1, items, TRUE)
  \/ TimerFires(1)

FilterSpec == FilterInit /\ [][FilterNext]_vars

\* ------------------------------------------ two sessions streaming, token refresh
\* The same two streams with the token refresh loop: its cycles, the answers of
\* the validate endpoint, automatic reconnects of the hub connections, and
\* sessions that stop or log out in between.  A stream can be registered for
\* a session that is gone (a stream-start that completed after the logout),
\* so the specification starts with either kind of session.
RefreshInit ==
  /\ windowSize = WindowTicks
  /\ alloc = {1, 2}
  /\ aggs = [a \in Slots |->
               CASE a = 1 -> start(NewAggregator("c1", 1, "s1"))
                 [] a = 2 -> start(NewAggregator("c1", 1, "s2"))
                 [] OTHER -> FreeAgg]
  /\ sockets = [a \in Slots |-> IF a \in {1, 2} THEN StartedSocket ELSE FreeSocket]
  /\ streams = [s \in ClientSessions |-> IF s = "s1" THEN 1 ELSE 2]
  /\ sessionStore \in [ClientSessions -> [live : BOOLEAN, accessToken : {0}]]
  /\ reqs = <<>>
  /\ clients = NoClients
  /\ wss = NoListeners
  /\ refresh = Idle
  /\ ev = [op |-> "init"]
  /\ replaced = {}
  /\ arrived = [a \in Slots |-> <<>>]
  /\ stopped = {}

\* streams.entries() in insertion order
RegistryOrder == <<"s1", "s2">>

\* the tokens the validate endpoint hands out
RefreshedTokens == {1}

\* the `for ... of streams.entries()` loop from entry i on, with the session
\* store `store`: entries deleted meanwhile are not visited; for a session
\* that is gone validateAndRefresh answers null at once and the loop warns and
\* goes on; otherwise the loop waits in validateAndRefresh for the validate
\* endpoint.  Answers where the loop stands next and the sessions found gone.
RECURSIVE loopFrom(_, _, _)
loopFrom(i, store, missing) ==
  IF i > Len(RegistryOrder)
  THEN [next |-> Idle, missing |-> missing]
  ELSE LET s == RegistryOrder[i] IN
       IF streams[s] = NoStream
       THEN loopFrom(i + 1, store, missing)
       ELSE IF ~store[s].live
       THEN loopFrom(i + 1, store, missing \cup {s})
       ELSE [next |-> [pc |-> "await", pos |-> i, session |-> s, stream |-> streams[s]],
             missing |-> missing]

\* a loop that gives up the cycle when a refresh fails
afterWarn_breaks(i, store) == [next |-> Idle, missing |-> {}]

\* the else branch of the loop body at entry i: console.warn, then the next entry
afterWarn(i, store) == loopFrom(i + 1, store, {})

\* the setInterval callback of the refresh loop, up to its first await
RefreshTick ==
  LET l == loopFrom(1, sessionStore, {}) IN
  /\ refresh.pc = "idle"
  /\ refresh' = l.next
  /\ ev' = [op |-> "refresh", outcome |-> "tick", session |-> "", stream |-> 0,
            token |-> 0, missing |-> l.missing]
  /\ UNCHANGED <<windowSize, alloc, aggs, sockets, streams, sessionStore, reqs,
               clients, wss, replaced, arrived, stopped>>

\* validateAndRefresh resumed after `await axios.post(...)` with a failure: the
\* request threw ("error") or the response says success: false ("unsuccessful")
ValidateFails(outcome) ==
  LET l == afterWarn(refresh.pos, sessionStore) IN
  /\ refresh.pc = "await"
  /\ refresh' = l.next
  /\ ev' = [op |-> "refresh", outcome |-> outcome, session |-> refresh.session,
            stream |-> refresh.stream, token |-> 0, missing |-> l.missing]
  /\ UNCHANGED <<windowSize, alloc, aggs, sockets, streams, sessionStore, reqs,
               clients, wss, replaced, arrived, stopped>>

\* the session object validateAndRefresh holds once the response is handled:
\* a new token is written into it and the object is set into the store again
sessionAfterValidate(s, newToken) ==
  IF newToken = 0
  THEN sessionStore
  ELSE [sessionStore EXCEPT ![s] = [live |-> TRUE, accessToken |-> newToken]]

\* validateAndRefresh resumed with success: true, with a new token or without
\* one (newToken 0); the loop calls stream.socket.updateToken and goes on.  A
\* stream that was torn down and dropped meanwhile has no socket left to see.
ValidateSucceeds(newToken) ==
  LET s == refresh.session
      store == sessionAfterValidate(s, newToken)
      token == store[s].accessToken
      l == loopFrom(refresh.pos + 1, store, {})
  IN
  /\ refresh.pc = "await"
  /\ sessionStore' = store
  /\ sockets' = IF refresh.stream \in alloc
                THEN [sockets EXCEPT ![refresh.stream] = updateToken(@, token)]
                ELSE sockets
  /\ refresh' = l.next
  /\ ev' = [op |-> "refresh", outcome |-> IF newToken = 0 THEN "valid" ELSE "renewed",
            session |-> s, stream |-> refresh.stream, token |-> token,
            missing |-> l.missing]
  /\ UNCHANGED <<windowSize, alloc, aggs, streams, reqs, clients, wss, replaced,
               arrived, stopped>>

\* the hub connection of socket a drops and withAutomaticReconnect connects it
\* again, to the URL the constructor built; the socket's fields are not touched
\* (the class registers no reconnect handler)
Reconnect(a) ==
  /\ sockets[a].conn = "Connected"
  /\ ev' = [op |-> "reconnect", agg |-> a, presented |-> sockets[a].url]
  /\ UNCHANGED <<windowSize, alloc, aggs, sockets, streams, sessionStore, reqs, clients,
               wss, refresh, replaced, arrived, stopped>>

RefreshNext ==
  \/ RefreshTick
  \/ \E outcome \in {"error", "unsuccessful"} : ValidateFails(outcome)
  \/ \E newToken \in RefreshedTokens \cup {0} : ValidateSucceeds(newToken)
  \/ \E a \in alloc : Reconnect(a)
  \/ \E a \in alloc : TimerFires(a)
  \/ \E a \in alloc, items \in HubDepthBatches : GatewayDepth(a, items)
  \/ \E kind \in {"stop", "logout"}, cookie \in ClientSessions : StopRequest(kind, cookie)
  \/ \E r \in ReqIds : StopAfterStop(r)

RefreshSpec == RefreshInit /\ [][RefreshNext]_vars

\* ======================================================== properties: bucket()
\* the last step was a bucket() call; ev.pre is the aggregator it ran on
Ran == ev.op = "bucket"

Emitted == ev.cols # <<>>

\* the tick that slot i (from 0) of an emitted window stands for
SlotTick(i) == ev.cols[1].midTick - (windowSize \div 2) + i

\* the volume a book side holds at tick t, 0 when the tick is not in it
VolumeAt(m, t) == IF t \in DOMAIN m THEN m[t] ELSE 0

\* C3: whenever bucket() runs with a bid and an ask level in the book, the emitted
\* snapshot's midTick is round((bestBid + bestAsk) / 2), a half rounding up: twice
\* the midTick is the sum of the best ticks, or that sum plus one.
C3_MidIsRoundedMean ==
  (Ran /\ Emitted /\ DOMAIN ev.pre.bids # {} /\ DOMAIN ev.pre.asks # {}) =>
     (2 * ev.cols[1].midTick) - (MaxOf(DOMAIN ev.pre.bids) + MinOf(DOMAIN ev.pre.asks))
        \in {0, 1}

\* C4: whenever bucket() runs with a side of the book empty and trades in the
\* buffer, a snapshot is emitted and its midTick is the tick of the last trade.
C4_MidIsLastTrade ==
  (Ran /\ (DOMAIN ev.pre.bids = {} \/ DOMAIN ev.pre.asks = {})
       /\ ev.pre.currentBucketTrades # <<>>) =>
     /\ Emitted
     /\ ev.cols[1].midTick =
          ev.pre.currentBucketTrades[Len(ev.pre.currentBucketTrades)].priceTick

\* C5: with an empty trade buffer, bucket() resolves midTick to the best tick of
\* the only non-empty side, and to the stored lastMidTick when both sides are empty.
C5_MidFallsBackToBook ==
  (Ran /\ ev.pre.currentBucketTrades = <<>>) =>
     /\ (DOMAIN ev.pre.bids # {} /\ DOMAIN ev.pre.asks = {}) =>
          ev.mid = MaxOf(DOMAIN ev.pre.bids)
     /\ (DOMAIN ev.pre.bids = {} /\ DOMAIN ev.pre.asks # {}) =>
          ev.mid = MinOf(DOMAIN ev.pre.asks)
     /\ (DOMAIN ev.pre.bids = {} /\ DOMAIN ev.pre.asks = {}) =>
          ev.mid = ev.pre.lastMidTick

\* C5 witness: bucket() ran on a book with asks only, no trades, and a stored
\* lastMidTick that is neither 0 nor the best ask.
C5_Witness ==
  /\ Ran /\ ev.pre.currentBucketTrades = <<>>
  /\ DOMAIN ev.pre.bids = {} /\ DOMAIN ev.pre.asks # {}
  /\ ev.pre.lastMidTick # 0 /\ ev.pre.lastMidTick # ev.mid

\* C6: bucket() on an empty book, an empty trade buffer and a lastMidTick that was
\* never set (it still holds 0, its initial value) calls the emit callback zero
\* times and changes nothing.
C6_NoDataNoSnapshot ==
  (Ran /\ DOMAIN ev.pre.bids = {} /\ DOMAIN ev.pre.asks = {}
       /\ ev.pre.currentBucketTrades = <<>> /\ ev.pre.lastMidTick = 0) =>
     /\ ev.cols = <<>>
     /\ aggs[ev.agg] = ev.pre

\* C6 witness: bucket() ran on an aggregator that has no data at all.
C6_Witness ==
  /\ Ran /\ DOMAIN ev.pre.bids = {} /\ DOMAIN ev.pre.asks = {}
  /\ ev.pre.currentBucketTrades = <<>> /\ ev.pre.lastMidTick = 0

\* C7: bucket() suppresses emission only when there is no data: with a level on
\* either side, a buffered trade or a lastMidTick set earlier, it emits exactly one
\* snapshot and drains the trade buffer.
C7_SuppressedOnlyWithoutData ==
  (Ran /\ (\/ DOMAIN ev.pre.bids # {}
           \/ DOMAIN ev.pre.asks # {}
           \/ ev.pre.currentBucketTrades # <<>>
           \/ ev.pre.lastMidTick # 0)) =>
     /\ Len(ev.cols) = 1
     /\ aggs[ev.agg].currentBucketTrades = <<>>

\* C8: every emitted snapshot has bids and asks arrays of exactly windowSize
\* entries.
C8_WindowLength ==
  (Ran /\ Emitted) =>
     /\ Len(ev.cols[1].bids) = windowSize
     /\ Len(ev.cols[1].asks) = windowSize

\* C8 witness: a snapshot was emitted with an odd window size around a negative
\* midTick.
C8_Witness == Ran /\ Emitted /\ windowSize % 2 = 1 /\ ev.cols[1].midTick < 0

\* C9: in every emitted snapshot, slot i of bids (asks) is the bid (ask) volume the
\* book held at tick midTick - floor(W/2) + i when bucket() ran, 0 when the tick
\* was not in the book, and there are no other slots.
C9_WindowContents ==
  (Ran /\ Emitted) =>
     /\ DOMAIN ev.cols[1].bids = 1..windowSize
     /\ DOMAIN ev.cols[1].asks = 1..windowSize
     /\ \A i \in 0..(windowSize - 1) :
          /\ ev.cols[1].bids[i + 1] = VolumeAt(ev.pre.bids, SlotTick(i))
          /\ ev.cols[1].asks[i + 1] = VolumeAt(ev.pre.asks, SlotTick(i))

\* C9 witness: a snapshot reports a bid level in one slot while another level of
\* the book lies outside the window.
C9_Witness ==
  /\ Ran /\ Emitted
  /\ \E i \in 1..windowSize : ev.cols[1].bids[i] # 0
  /\ \E t \in (DOMAIN ev.pre.bids) \cup (DOMAIN ev.pre.asks) :
       t < SlotTick(0) \/ t > SlotTick(windowSize - 1)

\* C10: a snapshot taken right after a bid (ask) update (T, V) whose window
\* contains T reports V in the slot of T: the volume set when V is not 0, and 0
\* after the update (T, 0) that removes the level.
C10_RoundTrip ==
  (Ran /\ Emitted /\ ev.prev.side # "none") =>
     \A i \in 0..(windowSize - 1) :
        SlotTick(i) = ev.prev.tick =>
           (IF ev.prev.side = "bid" THEN ev.cols[1].bids ELSE ev.cols[1].asks)[i + 1]
              = ev.prev.volume

\* C10 witness: a snapshot follows the removal (T, 0) of a bid level, T lies in
\* its window, and the snapshot still reports another level.
C10_Witness ==
  /\ Ran /\ Emitted /\ ev.prev.side = "bid" /\ ev.prev.volume = 0
  /\ \E i \in 0..(windowSize - 1) : SlotTick(i) = ev.prev.tick
  /\ \E i \in 1..windowSize : ev.cols[1].bids[i] # 0 \/ ev.cols[1].asks[i] # 0

\* ================================================= properties: stream lifecycle
\* the aggregators whose emit callback targets session s and whose timer runs
RunningFor(s) == {a \in alloc : aggs[a].session = s /\ aggs[a].intervalId}

\* C1: at no time do two aggregators that emit to the same session both have a
\* running bucket timer.
C1_OneRunningPerSession == \A s \in Sessions : Cardinality(RunningFor(s)) <= 1

\* C2: when a stream-start that found a registered stream completes, the registry
\* holds the new stream; the old stream's socket and timer are stopped from the
\* moment the request moves on to its new stream, so before the new timer starts;
\* and a replaced stream never emits afterwards.
C2_ReplacementStopsOld ==
  /\ (ev.op = "startOk" /\ ev.old # NoStream) =>
        /\ streams[ev.session] = ev.new
        /\ aggs[ev.new].intervalId
        /\ ~aggs[ev.old].intervalId
        /\ ~sockets[ev.old].isConnected
        /\ sockets[ev.old].conn = "Disconnected"
  /\ \A r \in ReqIds :
        (reqs[r].kind = "start" /\ reqs[r].pc # "awaitStop"
           /\ reqs[r].stream # NoStream) =>
           /\ ~aggs[reqs[r].stream].intervalId
           /\ ~sockets[reqs[r].stream].isConnected
           /\ sockets[reqs[r].stream].conn = "Disconnected"
           /\ ~aggs[reqs[r].agg].intervalId
  /\ (Ran /\ Emitted) => ev.agg \notin replaced

\* C2 witness: a stream-start that replaced a registered stream has just completed.
C2_Witness == ev.op = "startOk" /\ ev.old # NoStream /\ aggs[ev.new].intervalId

\* ================================================ properties: trades and the book
\* the trades of a buffer or of a snapshot are the trade messages msgs, in order
SameTrades(trades, msgs) ==
  /\ Len(trades) = Len(msgs)
  /\ \A i \in 1..Len(msgs) :
       /\ trades[i].price = msgs[i].price
       /\ trades[i].volume = msgs[i].quantity

\* C11: the trades of every emitted snapshot are the trades handled since the
\* snapshot emitted before it, in arrival order, and the buffer is empty right
\* after the emission; between emissions the buffer holds every trade handled
\* since the last one, so none is dropped and none is reported twice.
C11_TradesSinceLastSnapshot ==
  /\ \A a \in alloc : SameTrades(aggs[a].currentBucketTrades, arrived[a])
  /\ (Ran /\ Emitted) =>
        /\ SameTrades(ev.cols[1].trades, ev.since)
        /\ aggs[ev.agg].currentBucketTrades = <<>>

\* C11 witness: a second or later snapshot has carried two different trades.
C11_Witness ==
  /\ Ran /\ Emitted /\ ev.pre.lastMidTick # 0
  /\ Len(ev.cols[1].trades) = 2
  /\ ev.cols[1].trades[1].price # ev.cols[1].trades[2].price

\* C12: no tick of the bid map or of the ask map holds a volume that is zero or
\* negative, whatever depth messages were handled.
C12_NoNonPositiveLevel ==
  \A a \in alloc :
     /\ \A t \in DOMAIN aggs[a].bids : aggs[a].bids[t] > 0
     /\ \A t \in DOMAIN aggs[a].asks : aggs[a].asks[t] > 0

\* the side of aggregator A that a depth note names
SideOf(A, side) == IF side = "bid" THEN A.bids ELSE A.asks

\* C13: a side update with volume 0 at tick T leaves T absent from that side, takes
\* one level off it if T was there and none otherwise, and the next bucket() does
\* not find T on that side; an update with another volume sets the level at T;
\* neither changes any other level.
C13_LevelUpdate ==
  [][/\ (ev'.op = "depth" /\ ev'.note.side # "none") =>
          LET T == ev'.note.tick
              V == ev'.note.volume
              before == SideOf(aggs[1], ev'.note.side)
              after == SideOf(aggs'[1], ev'.note.side)
          IN /\ \A t \in ((DOMAIN before) \cup (DOMAIN after)) \ {T} :
                  t \in DOMAIN before /\ t \in DOMAIN after /\ after[t] = before[t]
             /\ IF V = 0
                THEN /\ T \notin DOMAIN after
                     /\ Cardinality(DOMAIN after) =
                          Cardinality(DOMAIN before) - (IF T \in DOMAIN before THEN 1 ELSE 0)
                ELSE T \in DOMAIN after /\ after[T] = V
     /\ (ev'.op = "bucket" /\ ev'.prev.side # "none" /\ ev'.prev.volume = 0) =>
          ev'.prev.tick \notin DOMAIN SideOf(ev'.pre, ev'.prev.side)
    ]_vars

\* C13 witness: a bid update with volume 0 was handled and the bid side still
\* holds a level.
C13_Witness ==
  /\ ev.op = "depth" /\ ev.note.side = "bid" /\ ev.note.volume = 0
  /\ DOMAIN aggs[1].bids # {}

\* C14: a depth message with the reset code 6 leaves the bid map and the ask map
\* empty and changes nothing else of the aggregator, the trade buffer and
\* lastMidTick included.
C14_Reset ==
  [][(ev'.op = "depth" /\ ev'.domType = 6) =>
        /\ aggs'[1].bids = EmptyMap
        /\ aggs'[1].asks = EmptyMap
        /\ aggs'[1].currentBucketTrades = aggs[1].currentBucketTrades
        /\ aggs'[1].lastMidTick = aggs[1].lastMidTick
        /\ aggs'[1].intervalId = aggs[1].intervalId
    ]_vars

\* C14 witness: a reset was handled by an aggregator that has emitted a snapshot
\* and has trades in its buffer.
C14_Witness ==
  /\ ev.op = "depth" /\ ev.domType = 6
  /\ aggs[1].lastMidTick # 0 /\ aggs[1].currentBucketTrades # <<>>

\* C15: handleDepth updates the asks alone for the codes 1, 3, 10, the bids alone
\* for the codes 2, 4, 9, clears both maps for code 6 and changes neither for any
\* other code; no depth message changes the trade buffer or lastMidTick.
C15_DomTypeMapping ==
  [][(ev'.op = "depth") =>
        /\ aggs'[1].currentBucketTrades = aggs[1].currentBucketTrades
        /\ aggs'[1].lastMidTick = aggs[1].lastMidTick
        /\ ev'.domType \in {1, 3, 10} =>
             /\ aggs'[1].bids = aggs[1].bids
             /\ ev'.note.side = "ask"
             /\ VolumeAt(aggs'[1].asks, ev'.note.tick) = ev'.note.volume
        /\ ev'.domType \in {2, 4, 9} =>
             /\ aggs'[1].asks = aggs[1].asks
             /\ ev'.note.side = "bid"
             /\ VolumeAt(aggs'[1].bids, ev'.note.tick) = ev'.note.volume
        /\ ev'.domType = 6 => aggs'[1].bids = EmptyMap /\ aggs'[1].asks = EmptyMap
        /\ ev'.domType \notin {1, 2, 3, 4, 6, 9, 10} =>
             aggs'[1].bids = aggs[1].bids /\ aggs'[1].asks = aggs[1].asks
    ]_vars

\* C15 witness: a message with a code that handleDepth ignores was handled while
\* the book held levels on both sides.
C15_Witness ==
  /\ ev.op = "depth" /\ ev.domType \in {0, 5, 7, 11}
  /\ DOMAIN aggs[1].bids # {} /\ DOMAIN aggs[1].asks # {}

\* C16: handleTrade appends one trade at the end of the trade buffer, with side
\* Buy for aggressorSide 0, Sell for 1 and None for any other value, and leaves
\* the bid map, the ask map and lastMidTick as they were.
C16_TradeAppended ==
  [][(ev'.op = "trade") =>
        LET before == aggs[1].currentBucketTrades
            after == aggs'[1].currentBucketTrades
            last == after[Len(after)]
        IN /\ Len(after) = Len(before) + 1
           /\ SubSeq(after, 1, Len(before)) = before
           /\ last.price = ev'.msg.price
           /\ last.volume = ev'.msg.quantity
           /\ last.side = (IF ev'.msg.aggressorSide = 0 THEN "Buy"
                           ELSE IF ev'.msg.aggressorSide = 1 THEN "Sell" ELSE "None")
           /\ aggs'[1].bids = aggs[1].bids
           /\ aggs'[1].asks = aggs[1].asks
           /\ aggs'[1].lastMidTick = aggs[1].lastMidTick
    ]_vars

\* C16 witness: a trade with an aggressor side that is neither 0 nor 1 was appended
\* behind another trade while the book held a level.
C16_Witness ==
  /\ ev.op = "trade" /\ ev.msg.aggressorSide \notin {0, 1}
  /\ Len(aggs[1].currentBucketTrades) = 2
  /\ DOMAIN aggs[1].bids # {}

\* ================================================ properties: start() and stop()
\* C17: start() on an aggregator whose timer runs changes nothing, and no
\* aggregator ever has more than one active bucket timer.
C17_StartIdempotent ==
  /\ \A a \in alloc : aggs[a].timers <= 1
  /\ (ev.op = "start" /\ ev.pre.intervalId) => aggs[1] = ev.pre

\* C17 witness: start() was called on a running aggregator.
C17_Witness == ev.op = "start" /\ ev.pre.intervalId /\ aggs[1].timers = 1

\* C18: when stop() returns the aggregator has no active timer, stop() on an
\* aggregator without a timer (stopped before, or never started) changes nothing,
\* and bucket() runs only on an aggregator whose timer is set: none runs, and
\* nothing is emitted, while the aggregator is stopped.
C18_StopCancels ==
  /\ (ev.op = "stop") =>
        /\ ~aggs[1].intervalId
        /\ aggs[1].timers = 0
        /\ ~ev.pre.intervalId => aggs[1] = ev.pre
  /\ Ran => ev.pre.intervalId /\ ev.pre.timers = 1

\* C18 witness: stop() was called again on an aggregator that a stop() had stopped.
C18_Witness == ev.op = "stop" /\ ~ev.pre.intervalId /\ 1 \in stopped

\* C19: an aggregator whose running timer a stop() has cleared never has a bucket
\* timer again, whatever is called on it afterwards.
C19_StoppedIsTerminal == \A a \in stopped : aggs[a].timers = 0

\* =============================================== properties: the listener registry
\* C20: the listener registry holds no empty set; remove deletes the entry of a
\* session whose last listener it removes, keeps the other listeners otherwise,
\* changes nothing for a session without an entry, and never touches the entry of
\* another session.
C20_NoEmptyListenerSet ==
  /\ \A s \in DOMAIN clients : clients[s] # {}
  /\ (ev.op = "remove") =>
        /\ \A s \in ((DOMAIN ev.pre) \cup (DOMAIN clients)) \ {ev.session} :
              s \in DOMAIN ev.pre /\ s \in DOMAIN clients /\ clients[s] = ev.pre[s]
        /\ IF ev.session \notin DOMAIN ev.pre
           THEN clients = ev.pre
           ELSE IF ev.pre[ev.session] \ {ev.ws} = {}
           THEN ev.session \notin DOMAIN clients
           ELSE /\ ev.session \in DOMAIN clients
                /\ clients[ev.session] = ev.pre[ev.session] \ {ev.ws}

\* C20 witness: the last listener of a session was removed while another session
\* had listeners.
C20_Witness ==
  /\ ev.op = "remove" /\ ev.session \in DOMAIN ev.pre
  /\ ev.pre[ev.session] = {ev.ws}
  /\ DOMAIN clients # {}

\* ================================================ properties: snapshot delivery
\* the listeners the callback of the last bucket() found registered for its session
ListenersAtEmission == IF ev.pre.session \in DOMAIN clients THEN clients[ev.pre.session] ELSE {}

\* C21: an emitted snapshot is sent exactly once to every listener that is
\* registered for the owning session and open, and to nobody else; a listener
\* that is not open is skipped, and the bucket completes all the same (trade
\* buffer drained, lastMidTick set).
C21_SentOnceToOpenListeners ==
  (Ran /\ Emitted) =>
    /\ \A ws \in WebSockets :
         ev.sends[ws] = IF ws \in ListenersAtEmission /\ wss[ws].readyState = "OPEN"
                        THEN 1 ELSE 0
    /\ aggs[ev.agg].lastMidTick = ev.mid
    /\ aggs[ev.agg].currentBucketTrades = <<>>

\* a snapshot goes to an open listener while another listener of the same
\* session is closing
C21_Witness ==
  /\ Ran /\ Emitted
  /\ \E w1, w2 \in ListenersAtEmission :
       /\ wss[w1].readyState = "OPEN" /\ ev.sends[w1] = 1
       /\ wss[w2].readyState = "CLOSING" /\ ev.sends[w2] = 0

\* C22: a snapshot of one session's stream is sent only to WebSockets whose
\* connection was accepted for that session and that are in that session's
\* listener set.
C22_SessionIsolation ==
  Ran =>
    \A ws \in WebSockets :
      ev.sends[ws] > 0 =>
        /\ wss[ws].sessionId = ev.pre.session
        /\ ev.pre.session \in DOMAIN clients
        /\ ws \in clients[ev.pre.session]

\* both sessions have an open listener and the snapshot reaches one of them only
C22_Witness ==
  /\ Ran /\ Emitted
  /\ \E w1, w2 \in WebSockets :
       /\ wss[w1].readyState = "OPEN" /\ wss[w1].sessionId = ev.pre.session
       /\ ev.sends[w1] = 1
       /\ wss[w2].readyState = "OPEN" /\ wss[w2].sessionId \notin {"", ev.pre.session}
       /\ ev.sends[w2] = 0

\* C23: a snapshot emitted while its session has no listener is sent to nobody,
\* and the bucket still drains the trade buffer and sets lastMidTick; a snapshot
\* carries the trades handled since the last emitted one only, and a connecting
\* listener is sent nothing by its connection handler, so what it receives are
\* the snapshots emitted after it was added.
C23_NothingKeptForLateListeners ==
  /\ (Ran /\ Emitted /\ ev.pre.session \notin DOMAIN clients) =>
       /\ ev.sends = NoSends
       /\ aggs[ev.agg].currentBucketTrades = <<>>
       /\ aggs[ev.agg].lastMidTick = ev.mid
  /\ (Ran /\ Emitted) => SameTrades(ev.cols[1].trades, ev.since)
  /\ (ev.op = "wsOpen") => ev.sends = NoSends

\* a snapshot with trades is emitted for a session nobody listens to, while
\* the other session has an open listener
C23_Witness ==
  /\ Ran /\ Emitted
  /\ ev.pre.session \notin DOMAIN clients
  /\ ev.cols[1].trades # <<>>
  /\ \E ws \in WebSockets : wss[ws].readyState = "OPEN"

\* C30: bucket() runs between upstream messages only: with every depth batch
\* carrying a bid and an ask and every trade batch two trades, the book a
\* bucket reads has both sides or neither and an even number of trades.
C30_BucketBetweenBatches ==
  Ran =>
    /\ hasBid(ev.pre) <=> hasAsk(ev.pre)
    /\ Len(ev.pre.currentBucketTrades) % 2 = 0

C30_Witness ==
  /\ Ran /\ Emitted
  /\ hasBid(ev.pre) /\ hasAsk(ev.pre)
  /\ Len(ev.pre.currentBucketTrades) = 2

\* ================================================= properties: token refresh
\* the last step was one of the refresh loop
Refreshed == ev.op = "refresh"

\* the entries the loop has still to visit after entry pos: registered, with a
\* session in the store
Remaining(pos, store) ==
  {i \in (pos + 1)..Len(RegistryOrder) :
     streams[RegistryOrder[i]] # NoStream /\ store[RegistryOrder[i]].live}

\* the loop has gone on from entry pos: it waits for the first remaining entry,
\* or the cycle is over when there is none
GoesOn(pos) ==
  IF Remaining(pos, sessionStore') = {}
  THEN refresh'.pc = "idle"
  ELSE refresh'.pc = "await" /\ refresh'.pos = MinOf(Remaining(pos, sessionStore'))

\* C24: a successful refresh for a session whose stream is registered replaces
\* the stored token of that stream's socket and nothing else of any stream:
\* every aggregator (book, trade buffer, lastMidTick, timer), the registry and
\* every socket's connection state, URL and subscriptions stay as they were.
C24_RefreshReplacesTokenOnly ==
  [][(/\ ev'.op = "refresh"
      /\ ev'.outcome \in {"valid", "renewed"}
      /\ streams[ev'.session] = ev'.stream)
     => /\ aggs' = aggs
        /\ streams' = streams
        /\ alloc' = alloc
        /\ sockets' = [sockets EXCEPT ![ev'.stream].token = ev'.token]]_vars

\* a new token has just been stored in the socket of a registered, connected
\* stream that holds a book
C24_Witness ==
  /\ Refreshed /\ ev.outcome = "renewed"
  /\ streams[ev.session] = ev.stream
  /\ sockets[ev.stream].token = ev.token
  /\ sockets[ev.stream].token # sockets[ev.stream].url
  /\ sockets[ev.stream].conn = "Connected"
  /\ hasBid(aggs[ev.stream])
  /\ aggs[ev.stream].timers > 0

\* C25: when validation fails (the request threw, the response is unsuccessful,
\* or the session is gone) no socket's token and no session's token changes,
\* every stream stays registered and every timer keeps running, and the cycle
\* goes on with the remaining entries.
C25_FailedRefreshKeepsAll ==
  [][(/\ ev'.op = "refresh"
      /\ ev'.outcome \in {"error", "unsuccessful"} \/ ev'.missing # {})
     => /\ ev'.outcome \in {"error", "unsuccessful", "tick"} =>
             /\ sockets' = sockets
             /\ sessionStore' = sessionStore
        /\ \A s \in ev'.missing :
             /\ sockets'[streams[s]] = sockets[streams[s]]
             /\ sessionStore'[s] = sessionStore[s]
        /\ streams' = streams
        /\ aggs' = aggs
        /\ GoesOn(refresh.pos)]_vars

\* the validation of the first session has failed, its stream is registered
\* and running, and the loop now waits for the second session
C25_Witness ==
  /\ Refreshed /\ ev.outcome \in {"error", "unsuccessful"}
  /\ ev.session = "s1" /\ streams["s1"] = ev.stream
  /\ aggs[ev.stream].timers > 0
  /\ refresh.pc = "await" /\ refresh.session = "s2"

\* C26: a hub connection that reconnects presents the token stored in its
\* socket, the refreshed one after a successful refresh.
C26_ReconnectPresentsStoredToken ==
  (ev.op = "reconnect") => ev.presented = sockets[ev.agg].token

ConnectedFor(s) == {a \in alloc : aggs[a].session = s /\ sockets[a].conn = "Connected"}

\* C29: when a stream-stop or logout request has been answered, its session has
\* no registered stream, no running bucket timer and no upstream connection,
\* whatever other requests of the session are in flight.
C29_StoppedSessionIsQuiet ==
  (ev.op \in {"stopDone", "logoutDone"}) =>
    /\ streams[ev.session] = NoStream
    /\ RunningFor(ev.session) = {}
    /\ ConnectedFor(ev.session) = {}

\* what belongs to the stream of session s: its registry entry and the
\* aggregators that emit to s (book, trade buffer, lastMidTick, timer)
StreamState(s) ==
  [entry |-> streams[s],
   aggregators |-> {<<a, aggs[a]>> : a \in {x \in Slots : aggs[x].session = s}}]

\* the session whose stream the operation recorded in e worked on, "" when the
\* step records none
Actor(e) ==
  CASE e.op = "bucket" -> e.pre.session
    [] e.op \in {"startOk", "startFailed", "stopDone", "logoutDone"} -> e.session
    [] OTHER -> ""

\* C28: no step (a depth or trade batch, a bucket, a step of a start, stop or
\* logout request) changes the stream state of more than one session, and a
\* bucket or a finished request of one session changes nothing of the other
\* session's stream.
C28_StreamsShareNothing ==
  [][/\ Cardinality({s \in ClientSessions : StreamState(s)' # StreamState(s)}) <= 1
     /\ \A s \in ClientSessions :
          (Actor(ev') # "" /\ s # Actor(ev')) => StreamState(s)' = StreamState(s)]_vars

\* the second session has just stopped its stream while the first one is
\* registered and running with a book, buffered trades and a lastMidTick
C28_Witness ==
  /\ ev.op = "stopDone" /\ ev.session = "s2"
  /\ streams["s2"] = NoStream
  /\ streams["s1"] = 1
  /\ aggs[1].timers > 0
  /\ hasBid(aggs[1])
  /\ aggs[1].currentBucketTrades # <<>>
  /\ aggs[1].lastMidTick # 0

\* ================================================== properties: lastMidTick
\* C31: once a snapshot has been emitted (lastMidTick holds its midTick M), a
\* bucket() that finds both book sides and the trade buffer empty emits a
\* snapshot with midTick M, all-zero bids and asks and no trades.
C31_MidCarriedForward ==
  (/\ Ran
   /\ ev.pre.lastMidTick # 0
   /\ ~hasBid(ev.pre) /\ ~hasAsk(ev.pre)
   /\ ev.pre.currentBucketTrades = <<>>)
  => /\ Emitted
     /\ ev.cols[1].midTick = ev.pre.lastMidTick
     /\ ev.cols[1].bids = Zeros(windowSize)
     /\ ev.cols[1].asks = Zeros(windowSize)
     /\ ev.cols[1].trades = <<>>

C31_Witness ==
  /\ Ran /\ Emitted
  /\ ev.pre.lastMidTick # 0
  /\ ~hasBid(ev.pre) /\ ~hasAsk(ev.pre)
  /\ ev.pre.currentBucketTrades = <<>>
  /\ ev.cols[1].midTick = ev.pre.lastMidTick

\* C37: lastMidTick is 0 when the aggregator is constructed; it changes in a
\* bucket() that emits a snapshot and nowhere else, every emitted snapshot
\* leaves its midTick in lastMidTick, and no emitted snapshot has midTick 0.
C37_LastMidTickIsLastEmitted ==
  /\ \A a \in Slots : aggs[a].lastMidTick = 0
  /\ [][(\A a \in Slots :
            (aggs'[a].lastMidTick # aggs[a].lastMidTick) =>
              (ev'.op = "bucket" /\ ev'.agg = a /\ ev'.cols # <<>>))
        /\ ((ev'.op = "bucket" /\ ev'.cols # <<>>) =>
              (/\ ev'.cols[1].midTick # 0
               /\ aggs'[ev'.agg].lastMidTick = ev'.cols[1].midTick))]_vars

\* a second snapshot has been emitted with another midTick than the first
C37_Witness ==
  /\ Ran /\ Emitted
  /\ ev.pre.lastMidTick # 0
  /\ ev.cols[1].midTick # ev.pre.lastMidTick
  /\ aggs[ev.agg].lastMidTick = ev.cols[1].midTick

\* ============================================ properties: registry and sockets
\* the slots the stream registry holds
Registered == {streams[s] : s \in DOMAIN streams} \ {NoStream}

\* the slots whose aggregator has a running bucket timer
Running == {a \in alloc : aggs[a].intervalId}

\* C32: whenever no start, stop or logout request is in flight, the aggregators
\* with a running bucket timer are the aggregators the stream registry holds.
C32_RunningIsRegistered == (reqs = <<>>) => Running = Registered

\* C34: once a stream-start request has finished, with success or with a failed
\* connect or subscribe, every connected upstream socket is the socket of a
\* registered stream.
C34_ConnectedIsRegistered ==
  (ev.op \in {"startOk", "startFailed"}) =>
    \A a \in alloc : sockets[a].conn = "Connected" => a \in Registered

\* C33: a stream-start request that is turned down before the teardown (no
\* session cookie, session not in the store, contractId or tickSize missing)
\* changes nothing: every registry entry, socket, aggregator (book, trade
\* buffer, lastMidTick, timer) and request in flight stays as it was.
C33_RejectedStartChangesNothing ==
  [][(/\ ev'.op = "startRequest"
      /\ \/ ev'.cookie = "none" \/ ev'.contractId = "" \/ ev'.tickSize = 0
         \/ ~HasSession(ev'.cookie))
     => UNCHANGED <<alloc, aggs, sockets, streams, reqs, sessionStore>>]_vars

\* a stream-start without contractId has just been turned down for a session
\* whose stream is registered, connected and running with a book, buffered
\* trades and a lastMidTick
C33_Witness ==
  /\ ev.op = "startRequest" /\ ev.cookie = "s1" /\ ev.contractId = ""
  /\ streams["s1"] = 1
  /\ sockets[1].conn = "Connected"
  /\ aggs[1].timers > 0
  /\ hasBid(aggs[1])
  /\ aggs[1].currentBucketTrades # <<>>
  /\ aggs[1].lastMidTick # 0

\* ================================================ properties: listener registry
\* WebSocket ws is in the listener set of session s in the registry cl
Listens(cl, s, ws) == s \in DOMAIN cl /\ ws \in cl[s]

\* C35: a WebSocket enters the listener registry only in the connection handler
\* and only under a session id that is in the session store at that moment; a
\* connection that names no session or an unknown one is closed and leaves the
\* registry as it was; the 'close' event of a WebSocket takes it out of the
\* registry.
C35_ListenerNeedsSession ==
  [][/\ (ev'.op = "wsOpen") =>
          (/\ ev'.session # "none"
           /\ HasSession(ev'.session)
           /\ Listens(clients', ev'.session, ev'.ws))
     /\ (ev'.op = "wsRejected") =>
          (clients' = clients /\ wss'[ev'.ws].readyState = "CLOSED")
     /\ \A s \in ClientSessions \cup {"none"}, ws \in WebSockets :
          (Listens(clients', s, ws) /\ ~Listens(clients, s, ws)) =>
            (ev'.op = "wsOpen" /\ ev'.session = s /\ ev'.ws = ws)
     /\ (ev'.op = "wsClosed") =>
          (\A s \in DOMAIN clients' : ev'.ws \notin clients'[s])]_vars

\* a connection that names a logged-out session has just been turned away
\* while the other session has a listener
C35_Witness ==
  /\ ev.op = "wsRejected" /\ ev.session = "s2"
  /\ ~HasSession("s2")
  /\ "s1" \in DOMAIN clients
  /\ "s2" \notin DOMAIN clients

\* ============================================== properties: the contract filter
\* the items of a batch whose contract id, as a string, is the one of A
Matching(A, items) ==
  SelectSeq(items, LAMBDA m : String(m.contractId) = A.contractId)

\* handleDepth / handleTrade called on every item of a sequence, in order
RECURSIVE EachDepthHandled(_, _)
EachDepthHandled(A, items) ==
  IF items = <<>> THEN A ELSE EachDepthHandled(handleDepth(A, Head(items)), Tail(items))

RECURSIVE EachTradeHandled(_, _)
EachTradeHandled(A, items) ==
  IF items = <<>> THEN A ELSE EachTradeHandled(handleTrade(A, Head(items)), Tail(items))

\* C36: after a depth or trade batch the aggregator is what handleDepth /
\* handleTrade make of exactly the items whose contract id, compared as a
\* string, is the stream's: an item of another contract changes nothing of the
\* book, the trade buffer or lastMidTick, and every item of the stream's
\* contract is handled, whether its id came as a string or as a number.
C36_ContractFilter ==
  [][/\ (ev'.op = "hubDepth") =>
          (aggs'[ev'.agg] = EachDepthHandled(aggs[ev'.agg],
                                              Matching(aggs[ev'.agg], ev'.items)))
     /\ (ev'.op = "hubTrade") =>
          (aggs'[ev'.agg] = EachTradeHandled(aggs[ev'.agg],
                                              Matching(aggs[ev'.agg], ev'.items)))]_vars

\* a batch with a bid for contract 7 named by a number and an ask for contract
\* 8 has been handled: the bid is in the book, the ask is not
C36_Witness ==
  /\ ev.op = "hubDepth"
  /\ Len(ev.items) = 2
  /\ ev.items[1].contractId = "#7" /\ ev.items[1].domType = 2 /\ ev.items[1].volume = 1
  /\ ev.items[2].contractId = "8" /\ ev.items[2].domType = 1 /\ ev.items[2].volume = 1
  /\ hasBid(aggs[1]) /\ ~hasAsk(aggs[1])


====
